---- MODULE Spec2Model ----
(***************************************************************************)
(* A model of the fusis balancer control plane: the Catalog (ipvs.State),  *)
(* the "none" provider's VIP synchronisation, the raft FSM (Engine.Apply,  *)
(* Snapshot, Restore) and the Balancer's two watchers (watchState and      *)
(* watchLeaderChanges).                                                    *)
(***************************************************************************)
EXTENDS Integers, Sequences, FiniteSets, TLC

(***************************************************************************)
(* Bounds of the model.                                                    *)
(***************************************************************************)
\* pending notifications the raft leader channel may hold in the model
MaxLeaderCh == 1
\* commands a replica may be ahead of the other one (specification SpecRep)
MaxLag == 1
\* concurrent API requests that allocate a VIP (specification SpecAlloc)
MaxRequests == 2

\* how many commands are applied while one Snapshot call reads the Catalog
MaxRace == 2

\* how many members one gossip event carries at most
MaxMembers == 2

\* how many other peers the raft peer store lists at most
MaxPeers == 2

\* how many times Leave's grace-period loop sleeps before its limit passes
MaxPolls == 2

\* how many times the consensus runtime calls the FSM while the node starts
MaxStartupCalls == 2

(***************************************************************************)
(* The values of the data model.                                           *)
(***************************************************************************)
\* the configured vipRange, in CIDR order
VipRange == <<"10.0.0.1", "10.0.0.2">>

Hosts == {VipRange[i] : i \in 1..Len(VipRange)}

Names == {"web", "api"}

Ports == {80, 443}

Protocols == {"tcp"}

DstNames == {"d1", "d2"}

\* types.Service; the Destinations slice inlined in a stored copy is never read
\* (GetServices and GetService overwrite it), so the Catalog's values leave it out
ServiceValues == [Name : Names, Host : Hosts, Port : Ports, Protocol : Protocols]

\* Service.GetId: the composite key (host, port, protocol)
SvcGetId(svc) == <<svc.Host, svc.Port, svc.Protocol>>

ServiceIds == {SvcGetId(svc) : svc \in ServiceValues}

\* types.Destination
DestinationValues == [Name : DstNames, Host : {"192.168.1.10"}, Port : {8080},
                      ServiceId : ServiceIds]

\* Destination.GetId
DstGetId(dst) == dst.Name

(***************************************************************************)
(* 4.A Catalog State (FusisState): two maps keyed by id.                   *)
(***************************************************************************)
EmptyMap == [k \in {} |-> k]

\* m[k] = v
MapPut(m, k, v) == [x \in DOMAIN m \cup {k} |-> IF x = k THEN v ELSE m[x]]

\* delete(m, k)
MapDelete(m, k) == [x \in DOMAIN m \ {k} |-> m[x]]

NewFusisState == [Services |-> EmptyMap, Destinations |-> EmptyMap]

\* a plausible slip: a Service whose id is present is not stored again
AddServiceIfAbsent(s, svc) ==
    IF SvcGetId(svc) \in DOMAIN s.Services THEN s
    ELSE [s EXCEPT !.Services = MapPut(@, SvcGetId(svc), svc)]

AddService(s, svc) == [s EXCEPT !.Services = MapPut(@, SvcGetId(svc), svc)]

DeleteService(s, svc) == [s EXCEPT !.Services = MapDelete(@, SvcGetId(svc))]

AddDestination(s, dst) ==
    [s EXCEPT !.Destinations = MapPut(@, DstGetId(dst), dst)]

DeleteDestination(s, dst) ==
    [s EXCEPT !.Destinations = MapDelete(@, DstGetId(dst))]

\* the Destinations whose ServiceId is the id of svc
getDestinations(s, svc) ==
    {s.Destinations[k] : k \in {x \in DOMAIN s.Destinations :
                                   s.Destinations[x].ServiceId = SvcGetId(svc)}}

\* every Service with its Destinations inlined; the slice's order is the map's
\* iteration order, which no caller depends on: a set
GetServices(s) ==
    {[Service |-> s.Services[k],
      Destinations |-> getDestinations(s, s.Services[k])] : k \in DOMAIN s.Services}

\* a plausible slip: a missing Destination comes back as the zero value
GetDestinationZero(s, name) ==
    IF name \in DOMAIN s.Destinations
    THEN [dst |-> s.Destinations[name], err |-> "nil"]
    ELSE [dst |-> [Name |-> "", Host |-> "", Port |-> 0,
                   ServiceId |-> <<>>], err |-> "nil"]

\* FusisState.GetDestination(name): the copy, and the error
GetDestination(s, name) ==
    IF name \in DOMAIN s.Destinations /\ s.Destinations[name].Name # ""
    THEN [dst |-> s.Destinations[name], err |-> "nil"]
    ELSE [dst |-> "nil", err |-> "destination not found"]

\* a name used as the key of a map lookup; a composite id is not a bare name
NameKey(name) == <<name>>

\* FusisState.GetService(name): the copy with its Destinations, and the error
GetService(s, name) ==
    IF NameKey(name) \in DOMAIN s.Services
          /\ s.Services[NameKey(name)].Name # ""
    THEN [svc |-> [Service |-> s.Services[NameKey(name)],
                   Destinations |->
                       getDestinations(s, s.Services[NameKey(name)])],
          err |-> "nil"]
    ELSE [svc |-> "nil", err |-> "service not found"]

\* {service.host | service in state}
HostsOf(s) == {s.Services[k].Host : k \in DOMAIN s.Services}

(***************************************************************************)
(* The wire formats: a JSON object is a sequence of <<field, value>> pairs. *)
(***************************************************************************)
JsonField(js, k) == js[CHOOSE i \in DOMAIN js : js[i][1] = k][2]

MarshalService(svc) ==
    << <<"Name", svc.Name>>, <<"Host", svc.Host>>, <<"Port", svc.Port>>,
       <<"Protocol", svc.Protocol>> >>

UnmarshalService(js) ==
    [Name |-> JsonField(js, "Name"), Host |-> JsonField(js, "Host"),
     Port |-> JsonField(js, "Port"), Protocol |-> JsonField(js, "Protocol")]

MarshalDestination(dst) ==
    << <<"Name", dst.Name>>, <<"Host", dst.Host>>, <<"Port", dst.Port>>,
       <<"ServiceId", dst.ServiceId>> >>

UnmarshalDestination(js) ==
    [Name |-> JsonField(js, "Name"), Host |-> JsonField(js, "Host"),
     Port |-> JsonField(js, "Port"), ServiceId |-> JsonField(js, "ServiceId")]

\* CommandOp
AddServiceOp == 0

DelServiceOp == 1

AddDestinationOp == 2

DelDestinationOp == 3

ServiceOps == {AddServiceOp, DelServiceOp}

DestinationOps == {AddDestinationOp, DelDestinationOp}

\* Command: an op with exactly one Service or exactly one Destination
Commands ==
    [Op : ServiceOps, Service : ServiceValues]
        \cup [Op : DestinationOps, Destination : DestinationValues]

\* the log entry's Data: the Command as the API layer marshals it
MarshalCommand(c) ==
    IF c.Op \in ServiceOps
    THEN << <<"Op", c.Op>>, <<"Service", MarshalService(c.Service)>> >>
    ELSE << <<"Op", c.Op>>, <<"Destination", MarshalDestination(c.Destination)>> >>

\* json.Unmarshal(l.Data, &c)
UnmarshalCommand(js) ==
    IF JsonField(js, "Op") \in ServiceOps
    THEN [Op |-> JsonField(js, "Op"),
          Service |-> UnmarshalService(JsonField(js, "Service"))]
    ELSE [Op |-> JsonField(js, "Op"),
          Destination |-> UnmarshalDestination(JsonField(js, "Destination"))]

(***************************************************************************)
(* 4.D The FSM's pure parts.                                               *)
(***************************************************************************)
\* Engine.Apply up to its switch: decode the Command, mutate the Catalog
ApplyCommand(s, data) ==
    LET c == UnmarshalCommand(data) IN
    CASE c.Op = AddServiceOp -> AddService(s, c.Service)
      [] c.Op = DelServiceOp -> DeleteService(s, c.Service)
      [] c.Op = AddDestinationOp -> AddDestination(s, c.Destination)
      [] c.Op = DelDestinationOp -> DeleteDestination(s, c.Destination)
      [] OTHER -> s

\* a set as a sequence, in some order
RECURSIVE SetToSeq(_)
SetToSeq(S) ==
    IF S = {} THEN <<>>
    ELSE LET x == CHOOSE y \in S : TRUE IN <<x>> \o SetToSeq(S \ {x})

\* fusisSnapshot.Persist: json.Marshal(f.Services)
Persist(services) ==
    LET one(e) == << <<"Service", MarshalService(e.Service)>>,
                     <<"Destinations",
                       [i \in 1..Cardinality(e.Destinations) |->
                          MarshalDestination(SetToSeq(e.Destinations)[i])]>> >>
    IN [i \in 1..Cardinality(services) |-> one(SetToSeq(services)[i])]

\* Engine.Snapshot followed by Persist on the handle it returns
Snapshot(s) == Persist(GetServices(s))

\* Engine.Restore's loop from element i of the decoded slice on: AddService,
\* then AddDestination for each nested destination
RECURSIVE RestoreDestinations(_, _, _)
RestoreDestinations(s, dsts, j) ==
    IF j > Len(dsts) THEN s
    ELSE RestoreDestinations(AddDestination(s, UnmarshalDestination(dsts[j])),
                             dsts, j + 1)

RECURSIVE RestoreFrom(_, _, _)
RestoreFrom(s, rc, i) ==
    IF i > Len(rc) THEN s
    ELSE RestoreFrom(
             RestoreDestinations(
                 AddService(s, UnmarshalService(JsonField(rc[i], "Service"))),
                 JsonField(rc[i], "Destinations"), 1),
             rc, i + 1)

\* a plausible slip: Restore starts from an empty Catalog
RestoreStateCleared(s, rc) == RestoreFrom(NewFusisState, rc, 1)

RestoreState(s, rc) == RestoreFrom(s, rc, 1)

\* a plausible slip: the mutation is kept only when reconciliation succeeded
EngineApplyIfReconciled(s, data, isLeader, err) ==
    [State |-> IF err = "nil" THEN ApplyCommand(s, data) ELSE s, ret |-> err]

\* Engine.Apply as a whole, when nothing runs beside it: the Catalog it leaves
\* and the value it returns on a node whose leadership is isLeader and whose
\* Ipvs.SyncState returns err (handleStateChange drops SyncVIPs' error)
EngineApply(s, data, isLeader, err) ==
    [State |-> ApplyCommand(s, data), ret |-> err]

(***************************************************************************)
(* The state of one balancer node.                                         *)
(***************************************************************************)
VARIABLES
    state,        \* Engine.State: the Catalog
    raftState,    \* raft.State() of the node's consensus handle
    leaderCh,     \* raft.LeaderCh(): leadership changes not yet received
    vips,         \* the addresses bound on the interface with the fusis label
    mutex,        \* Balancer.Mutex: "" or the goroutine holding it
    pc,           \* where watchState and watchLeaderChanges stand
    sync,         \* SyncVIPs' locals, per calling goroutine
    wErr,         \* watchState: the error handleStateChange returned
    lIsLeader,    \* watchLeaderChanges: the value received from LeaderCh
    fsmPc,        \* the raft FSM goroutine inside Apply or Restore
    fsmOp,        \* "Apply" or "Restore": the call the FSM goroutine is in
    fsmRet,       \* what the last Apply or Restore returned
    passErr,      \* history: what handleStateChange returned for the request
                  \* in flight ("none" until it has run)
    syncErr,      \* history: what SyncVIPs returned in each goroutine's pass
                  \* ("none" when the pass has not called it to the end)
    flushed,      \* history: the leader watcher's last flushVips succeeded
    lostHandled   \* history: the last leadership change was a loss and the
                  \* leader watcher has finished handling it, flush succeeded

VARIABLES
    cat,          \* the Catalog of a node whose FSM is driven alone
    lastOp,       \* history: "Apply" or "Snapshot", the FSM's last call
    lastCmd,      \* history: the Command of the last Apply
    present,      \* history: the last Command's id was in its map before
    restored,     \* the Catalog of an empty node restored from a snapshot of
                  \* cat, when restoredValid: taken since the last Apply
    restoredValid

fsmVars == <<cat, lastOp, lastCmd, present, restored, restoredValid>>

VARIABLES
    rcat,         \* the Catalog of each of two replicas
    rlog,         \* the replicated log's entries not yet applied by both
    rapplied,     \* how many entries of rlog each replica has applied
    rleader       \* the replica that is the leader

repVars == <<rcat, rlog, rapplied, rleader>>

VARIABLES
    areq          \* the API requests that add a Service, each with the
                  \* Service it builds and the step it has reached

allocVars == <<areq>>

VARIABLES
    pstate,       \* the state one caller allocates from and adds Services to
    preq          \* that caller's Service, the step it has reached, and the
                  \* error its AllocateVIP returned

poolVars == <<pstate, preq>>

VARIABLES
    qstate,       \* the Catalog a reader looks Services up in
    got           \* the reader's last GetService call: its name and result

readVars == <<qstate, got>>

VARIABLES
    vs            \* one SyncVIPs call run alone: the interface, the state it
                  \* is given, its locals, and the history of its attempts

syncVars == <<vs>>

VARIABLES
    snstate,      \* Engine.State of a node whose Snapshot runs beside Apply
    elock,        \* Engine.Mutex: "" or "Snapshot"
    sn            \* the Snapshot call: where it stands in GetServices, the
                  \* slice built so far, and the history of the Catalogs that
                  \* stood since it began

snapVars == <<snstate, elock, sn>>

VARIABLES
    gstate,       \* Engine.State of the node that handles gossip events
    gleader,      \* whether that node's raft handle is in state Leader
    gev           \* handleEvents: the event being handled, the member it
                  \* has reached, and the history of what it did per member

gossipVars == <<gstate, gleader, gev>>

VARIABLES
    sraft,        \* the leaving node's surroundings: whether raft is in state
                  \* Leader, how many other peers the peer store lists, and
                  \* whether a log store on disk exists (b.raftStore != nil)
    sd            \* Shutdown: where it stands, Leave's locals, and the
                  \* history of the steps it has performed

leaveVars == <<sraft, sd>>

VARIABLES
    tstate,       \* Engine.State of a node whose FSM is given snapshots
    tlast         \* history: the last Restore's reader, whether it decoded,
                  \* and the Catalog as it stood before

restoreVars == <<tstate, tlast>>

VARIABLES
    st            \* a starting node: where setupRaft stands, b.raft, the
                  \* watchState goroutine, the FSM call in progress, and
                  \* the history of requests published and answered

startVars == <<st>>

\* the state of the specifications that follow the first four
moreVars ==
    <<poolVars, readVars, syncVars, snapVars, gossipVars, leaveVars,
      restoreVars, startVars>>

nodeVars ==
    <<state, raftState, leaderCh, vips, mutex, pc, sync, wErr, lIsLeader,
      fsmPc, fsmOp, fsmRet, passErr, syncErr, flushed,
      lostHandled>>

Goroutines == {"watchState", "watchLeaderChanges"}

\* what a specification of the node alone leaves unchanged
notNodeVars == <<fsmVars, repVars, allocVars, moreVars>>

NoSync == [oldVIPs |-> {}, toAdd |-> {}, toRemove |-> {}, errors |-> {}]

\* the commands and snapshots the node's FSM is fed in specification Spec
NodeServices == {svc \in ServiceValues : svc.Name = "web" /\ svc.Port = 80}

NodeDestinations ==
    {dst \in DestinationValues :
        dst.Name = "d1" /\ dst.ServiceId = <<VipRange[1], 80, "tcp">>}

NodeCommands ==
    [Op : ServiceOps, Service : NodeServices]
        \cup [Op : DestinationOps, Destination : NodeDestinations]

NodeCatalog(S, D) ==
    [Services |-> [k \in {SvcGetId(svc) : svc \in S} |->
                      CHOOSE svc \in S : SvcGetId(svc) = k],
     Destinations |-> [k \in {DstGetId(dst) : dst \in D} |->
                      CHOOSE dst \in D : DstGetId(dst) = k]]

\* the snapshots a peer of the node can have persisted
NodeSnapshots ==
    {Snapshot(NodeCatalog(S, D)) : S \in SUBSET NodeServices,
                                   D \in SUBSET NodeDestinations}

InitNode ==
    /\ state = NewFusisState
    /\ raftState = "Follower"
    /\ leaderCh = <<>>
    /\ vips = {}
    /\ mutex = ""
    /\ pc = [g \in Goroutines |-> "recv"]
    /\ sync = [g \in Goroutines |-> NoSync]
    /\ wErr = "nil"
    /\ lIsLeader = FALSE
    /\ fsmPc = "idle"
    /\ fsmOp = "none"
    /\ fsmRet = "nil"
    /\ passErr = "none"
    /\ syncErr = [g \in Goroutines |-> "none"]
    /\ flushed = FALSE
    /\ lostHandled = FALSE

(***************************************************************************)
(* The network interface (package net) and the IPVS reconciler.            *)
(***************************************************************************)
\* net.AddIp(ip+"/32", iface): the address is bound, or the call fails
AddIp(bound, ip, ok) == IF ok THEN bound \cup {ip} ELSE bound

\* net.DelIp(ip+"/32", iface): the address is unbound, or the call fails
DelIp(bound, ip, ok) == IF ok THEN bound \ {ip} ELSE bound

\* net.DelVips(iface): every labelled address is unbound, or the call fails
DelVips(bound, ok) == IF ok THEN {} ELSE bound

\* what Ipvs.SyncState can return
SyncStateErrors == {"nil", "ipvs error"}

(***************************************************************************)
(* The consensus runtime, as the node sees it.                             *)
(***************************************************************************)
IsLeader == raftState = "Leader"

\* the node wins an election: raft.State() changes and LeaderCh gets true
RaftBecomeLeader ==
    /\ raftState = "Follower"
    /\ Len(leaderCh) < MaxLeaderCh
    /\ raftState' = "Leader"
    /\ leaderCh' = Append(leaderCh, TRUE)
    /\ lostHandled' = FALSE
    /\ UNCHANGED <<state, vips, mutex, pc, sync, wErr, lIsLeader, fsmPc, fsmOp,
                   fsmRet, passErr, syncErr, flushed>>
    /\ UNCHANGED notNodeVars

\* the node loses leadership: raft.State() changes and LeaderCh gets false
RaftLoseLeadership ==
    /\ raftState = "Leader"
    /\ Len(leaderCh) < MaxLeaderCh
    /\ raftState' = "Follower"
    /\ leaderCh' = Append(leaderCh, FALSE)
    /\ lostHandled' = FALSE
    /\ UNCHANGED <<state, vips, mutex, pc, sync, wErr, lIsLeader, fsmPc, fsmOp,
                   fsmRet, passErr, syncErr, flushed>>
    /\ UNCHANGED notNodeVars

(***************************************************************************)
(* 4.D Engine.Apply and Engine.Restore, called by the raft FSM goroutine.  *)
(***************************************************************************)
fsmUnchanged ==
    /\ syncErr' = [syncErr EXCEPT !["watchState"] = "none"]
    /\ UNCHANGED <<raftState, leaderCh, vips, mutex, pc, sync, wErr, lIsLeader,
                   flushed, lostHandled>>

\* Apply, to the point where it blocks sending on StateCh
Apply(c) ==
    /\ fsmPc \in {"idle", "returned"}
    /\ state' = ApplyCommand(state, MarshalCommand(c))
    /\ fsmPc' = "publish"
    /\ fsmOp' = "Apply"
    /\ passErr' = "none"
    /\ UNCHANGED fsmRet
    /\ fsmUnchanged
    /\ UNCHANGED notNodeVars

\* Restore, to the point where it blocks sending on StateCh; when the reader
\* does not decode it returns the decoder's error at once
Restore(rc, decodes) ==
    /\ fsmPc \in {"idle", "returned"}
    /\ fsmOp' = "Restore"
    /\ passErr' = "none"
    /\ IF decodes
       THEN /\ state' = RestoreState(state, rc)
            /\ fsmPc' = "publish"
            /\ UNCHANGED fsmRet
       ELSE /\ fsmPc' = "returned"
            /\ fsmRet' = "decode error"
            /\ UNCHANGED state
    /\ fsmUnchanged
    /\ UNCHANGED notNodeVars

\* a plausible slip: Apply hands its request over and returns without
\* receiving from rsp
StateChSendNoWait ==
    /\ fsmPc = "publish"
    /\ pc["watchState"] = "recv"
    /\ fsmPc' = "returned"
    /\ pc' = [pc EXCEPT !["watchState"] = "handleStateChange"]
    /\ UNCHANGED <<state, raftState, leaderCh, vips, mutex, sync, wErr,
                   lIsLeader, fsmOp, fsmRet, passErr, syncErr, flushed,
                   lostHandled>>
    /\ UNCHANGED notNodeVars

\* e.StateCh <- rsp meets rsp := <-b.engine.StateCh in watchState
StateChSend ==
    /\ fsmPc = "publish"
    /\ pc["watchState"] = "recv"
    /\ fsmPc' = "waiting"
    /\ pc' = [pc EXCEPT !["watchState"] = "handleStateChange"]
    /\ UNCHANGED <<state, raftState, leaderCh, vips, mutex, sync, wErr,
                   lIsLeader, fsmOp, fsmRet, passErr, syncErr, flushed,
                   lostHandled>>
    /\ UNCHANGED notNodeVars

\* a plausible slip: the watcher acknowledges without the error
watchStateReplyNil == "nil"

\* what watchState sends on the request's reply channel
watchStateReply == wErr

\* rsp <- b.handleStateChange() meets return <-rsp
StateChReply ==
    /\ pc["watchState"] = "reply"
    /\ fsmPc = "waiting"
    /\ fsmRet' = watchStateReply
    /\ fsmPc' = "returned"
    /\ pc' = [pc EXCEPT !["watchState"] = "recv"]
    /\ wErr' = "nil"
    /\ UNCHANGED <<state, raftState, leaderCh, vips, mutex, sync, lIsLeader,
                   fsmOp, passErr, syncErr, flushed, lostHandled>>
    /\ UNCHANGED notNodeVars

(***************************************************************************)
(* 4.B None.SyncVIPs, step by step, in the goroutine g that calls it.      *)
(***************************************************************************)
\* where g goes on when SyncVIPs has returned: handleStateChange calls
\* Ipvs.SyncState, setVips returns to watchLeaderChanges' Unlock
AfterSyncVIPs(g) == IF g = "watchState" THEN "SyncState" ELSE "Unlock"

\* a plausible slip: the collected errors are logged but not returned
SyncVIPsErrorLogged(errors) == "nil"

\* the error SyncVIPs returns after its two loops
SyncVIPsError(errors) == IF errors = {} THEN "nil" ELSE "multiple errors"

SyncVIPsReturn(g, err) ==
    /\ pc' = [pc EXCEPT ![g] = AfterSyncVIPs(g)]
    /\ sync' = [sync EXCEPT ![g] = NoSync]
    /\ syncErr' = [syncErr EXCEPT ![g] = err]

\* the loops go on with locals l, or the function returns
SyncVIPsContinue(g, l) ==
    IF l.toAdd # {}
    THEN /\ pc' = [pc EXCEPT ![g] = "AddIp"]
         /\ sync' = [sync EXCEPT ![g] = l]
         /\ UNCHANGED syncErr
    ELSE IF l.toRemove # {}
    THEN /\ pc' = [pc EXCEPT ![g] = "DelIp"]
         /\ sync' = [sync EXCEPT ![g] = l]
         /\ UNCHANGED syncErr
    ELSE SyncVIPsReturn(g, SyncVIPsError(l.errors))

\* oldVIPs, err := net.GetFusisVipsIps(n.iface)
SyncVIPsList(g, ok) ==
    /\ pc[g] = "SyncVIPs"
    /\ IF ok
       THEN /\ pc' = [pc EXCEPT ![g] = "GetServices"]
            /\ sync' = [sync EXCEPT ![g].oldVIPs = vips]
            /\ UNCHANGED syncErr
       ELSE SyncVIPsReturn(g, "list error")
    /\ UNCHANGED <<state, raftState, leaderCh, vips, mutex, wErr, lIsLeader,
                   fsmPc, fsmOp, fsmRet, passErr,
                   flushed, lostHandled>>
    /\ UNCHANGED notNodeVars

\* toAddMap and toRemove from state.GetServices() and oldVIPs
SyncVIPsPlan(old, services) ==
    LET hosts == {e.Service.Host : e \in services} IN
    [oldVIPs |-> {}, toAdd |-> hosts \ old, toRemove |-> old \ hosts,
     errors |-> {}]

SyncVIPsGetServices(g) ==
    /\ pc[g] = "GetServices"
    /\ SyncVIPsContinue(g, SyncVIPsPlan(sync[g].oldVIPs, GetServices(state)))
    /\ UNCHANGED <<state, raftState, leaderCh, vips, mutex, wErr, lIsLeader,
                   fsmPc, fsmOp, fsmRet, passErr,
                   flushed, lostHandled>>
    /\ UNCHANGED notNodeVars

\* one iteration of: for ip := range toAddMap { net.AddIp(...) }
SyncVIPsAddIp(g, ip, ok) ==
    /\ pc[g] = "AddIp"
    /\ ip \in sync[g].toAdd
    /\ vips' = AddIp(vips, ip, ok)
    /\ SyncVIPsContinue(g, [sync[g] EXCEPT
                               !.toAdd = @ \ {ip},
                               !.errors = IF ok THEN @ ELSE @ \cup {ip}])
    /\ UNCHANGED <<state, raftState, leaderCh, mutex, wErr, lIsLeader, fsmPc,
                   fsmOp, fsmRet, passErr, flushed, lostHandled>>
    /\ UNCHANGED notNodeVars

\* one iteration of: for _, ip := range toRemove { net.DelIp(...) }
SyncVIPsDelIp(g, ip, ok) ==
    /\ pc[g] = "DelIp"
    /\ ip \in sync[g].toRemove
    /\ vips' = DelIp(vips, ip, ok)
    /\ SyncVIPsContinue(g, [sync[g] EXCEPT
                               !.toRemove = @ \ {ip},
                               !.errors = IF ok THEN @ ELSE @ \cup {ip}])
    /\ UNCHANGED <<state, raftState, leaderCh, mutex, wErr, lIsLeader, fsmPc,
                   fsmOp, fsmRet, passErr, flushed, lostHandled>>
    /\ UNCHANGED notNodeVars

(***************************************************************************)
(* 4.E The state-change watcher: handleStateChange.                        *)
(***************************************************************************)
\* if b.IsLeader() { b.provider.SyncVIPs(...) } else { b.Lock(); defer ... }
handleStateChange ==
    /\ pc["watchState"] = "handleStateChange"
    /\ pc' = [pc EXCEPT !["watchState"] = IF IsLeader THEN "SyncVIPs" ELSE "Lock"]
    /\ UNCHANGED <<state, raftState, leaderCh, vips, mutex, sync, wErr,
                   lIsLeader, fsmPc, fsmOp, fsmRet, passErr, syncErr, flushed, lostHandled>>
    /\ UNCHANGED notNodeVars

\* a plausible slip: the goroutine goes on without having taken the mutex
LockSkipped(g) ==
    /\ pc[g] = "Lock"
    /\ pc' = [pc EXCEPT ![g] = IF g = "watchState" THEN "SyncState" ELSE "flushVips"]
    /\ UNCHANGED <<state, raftState, leaderCh, vips, mutex, sync, wErr,
                   lIsLeader, fsmPc, fsmOp, fsmRet, passErr, syncErr, flushed,
                   lostHandled>>
    /\ UNCHANGED notNodeVars

\* b.Lock(), in handleStateChange's else branch and in watchLeaderChanges
Lock(g) ==
    /\ pc[g] = "Lock"
    /\ mutex = ""
    /\ mutex' = g
    /\ pc' = [pc EXCEPT ![g] = IF g = "watchState" THEN "SyncState" ELSE "flushVips"]
    /\ UNCHANGED <<state, raftState, leaderCh, vips, sync, wErr, lIsLeader,
                   fsmPc, fsmOp, fsmRet, passErr, syncErr, flushed, lostHandled>>
    /\ UNCHANGED notNodeVars

\* what handleStateChange returns when Ipvs.SyncState returned err
handleStateChangeResult(err) == err

\* return b.engine.Ipvs.SyncState(b.engine.State), then the deferred Unlock
SyncState(err) ==
    /\ pc["watchState"] = "SyncState"
    /\ wErr' = handleStateChangeResult(err)
    /\ passErr' = handleStateChangeResult(err)
    /\ mutex' = IF mutex = "watchState" THEN "" ELSE mutex
    /\ pc' = [pc EXCEPT !["watchState"] = "reply"]
    /\ UNCHANGED <<state, raftState, leaderCh, vips, sync, lIsLeader, fsmPc,
                   fsmOp, fsmRet, syncErr, flushed,
                   lostHandled>>
    /\ UNCHANGED notNodeVars

(***************************************************************************)
(* 4.E The leader-change watcher: watchLeaderChanges.                      *)
(***************************************************************************)
\* isLeader := <-b.raft.LeaderCh()
LeaderChRecv ==
    /\ pc["watchLeaderChanges"] = "recv"
    /\ leaderCh # <<>>
    /\ lIsLeader' = Head(leaderCh)
    /\ leaderCh' = Tail(leaderCh)
    /\ pc' = [pc EXCEPT !["watchLeaderChanges"] = "Lock"]
    /\ UNCHANGED <<state, raftState, vips, mutex, sync, wErr, fsmPc, fsmOp,
                   fsmRet, passErr, syncErr, flushed, lostHandled>>
    /\ UNCHANGED notNodeVars

\* b.flushVips(); then b.setVips() when isLeader
flushVips(ok) ==
    /\ pc["watchLeaderChanges"] = "flushVips"
    /\ vips' = DelVips(vips, ok)
    /\ flushed' = ok
    /\ pc' = [pc EXCEPT !["watchLeaderChanges"] =
                  IF lIsLeader THEN "SyncVIPs" ELSE "Unlock"]
    /\ UNCHANGED <<state, raftState, leaderCh, mutex, sync, wErr, lIsLeader,
                   fsmPc, fsmOp, fsmRet, passErr, syncErr, lostHandled>>
    /\ UNCHANGED notNodeVars

\* b.Unlock() at the end of the loop body
Unlock ==
    /\ pc["watchLeaderChanges"] = "Unlock"
    /\ mutex' = ""
    /\ pc' = [pc EXCEPT !["watchLeaderChanges"] = "recv"]
    /\ lostHandled' = (~lIsLeader /\ flushed /\ leaderCh = <<>> /\ ~IsLeader)
    /\ lIsLeader' = FALSE
    /\ flushed' = FALSE
    /\ syncErr' = [syncErr EXCEPT !["watchLeaderChanges"] = "none"]
    /\ UNCHANGED <<state, raftState, leaderCh, vips, sync, wErr, fsmPc, fsmOp,
                   fsmRet, passErr>>
    /\ UNCHANGED notNodeVars

(***************************************************************************)
(* Specification Spec: one node, its FSM goroutine and its two watchers.   *)
(***************************************************************************)
NextNode ==
    \/ RaftBecomeLeader
    \/ RaftLoseLeadership
    \/ \E c \in NodeCommands : Apply(c)
    \/ \E rc \in NodeSnapshots, decodes \in BOOLEAN : Restore(rc, decodes)
    \/ StateChSend
    \/ handleStateChange
    \/ \E g \in Goroutines : Lock(g)
    \/ \E g \in Goroutines, ok \in BOOLEAN : SyncVIPsList(g, ok)
    \/ \E g \in Goroutines : SyncVIPsGetServices(g)
    \/ \E g \in Goroutines, ip \in Hosts, ok \in BOOLEAN : SyncVIPsAddIp(g, ip, ok)
    \/ \E g \in Goroutines, ip \in Hosts, ok \in BOOLEAN : SyncVIPsDelIp(g, ip, ok)
    \/ \E err \in SyncStateErrors : SyncState(err)
    \/ StateChReply
    \/ LeaderChRecv
    \/ \E ok \in BOOLEAN : flushVips(ok)
    \/ Unlock

(***************************************************************************)
(* Specification SpecFSM: the FSM of one node driven command by command,   *)
(* with snapshots of its Catalog restored on an empty node.                *)
(***************************************************************************)
\* the commands the sequential specifications draw from
SeqServices == {svc \in ServiceValues : svc.Port = 80}

SeqDestinations ==
    {dst \in DestinationValues :
        dst.ServiceId \in {SvcGetId(svc) : svc \in SeqServices}}

SeqCommands ==
    [Op : ServiceOps, Service : SeqServices]
        \cup [Op : DestinationOps, Destination : SeqDestinations]

NoCommand == [Op |-> -1]

InitFSM ==
    /\ cat = NewFusisState
    /\ lastOp = "none"
    /\ lastCmd = NoCommand
    /\ present = FALSE
    /\ restored = NewFusisState
    /\ restoredValid = FALSE

\* the id of the Command's Service or Destination is a key of its map
CommandIdPresent(s, c) ==
    IF c.Op \in ServiceOps
    THEN SvcGetId(c.Service) \in DOMAIN s.Services
    ELSE DstGetId(c.Destination) \in DOMAIN s.Destinations

\* what Apply of Command c does to the Catalog cat, and the history of it
ApplyToCat(c) ==
    /\ cat' = ApplyCommand(cat, MarshalCommand(c))
    /\ lastOp' = "Apply"
    /\ lastCmd' = c
    /\ present' = CommandIdPresent(cat, c)
    /\ restored' = NewFusisState
    /\ restoredValid' = FALSE

\* Apply of Command c
FsmApply(c) ==
    /\ ApplyToCat(c)
    /\ UNCHANGED <<nodeVars, repVars, allocVars, moreVars>>

\* Snapshot, Persist, and Restore of what was persisted on an empty node
FsmSnapshotRestore ==
    /\ restored' = RestoreState(NewFusisState, Snapshot(cat))
    /\ restoredValid' = TRUE
    /\ lastOp' = "Snapshot"
    /\ UNCHANGED <<cat, lastCmd, present>>
    /\ UNCHANGED <<nodeVars, repVars, allocVars, moreVars>>

NextFSM ==
    \/ \E c \in SeqCommands : FsmApply(c)
    \/ FsmSnapshotRestore

(***************************************************************************)
(* Specification SpecRep: two replicas apply the same log, each at its own *)
(* pace, with its own leadership and its own reconciliation errors.        *)
(***************************************************************************)
Replicas == {"A", "B"}

InitRep ==
    /\ rcat = [r \in Replicas |-> NewFusisState]
    /\ rlog = <<>>
    /\ rapplied = [r \in Replicas |-> 0]
    /\ rleader = "A"

\* a Command is committed to the log
RepCommit(c) ==
    /\ Len(rlog) < MaxLag
    /\ rlog' = Append(rlog, MarshalCommand(c))
    /\ UNCHANGED <<rcat, rapplied, rleader>>
    /\ UNCHANGED <<nodeVars, fsmVars, allocVars, moreVars>>

\* replica r applies its next log entry, its reconciliation returning err; an
\* entry both replicas have applied is dropped from rlog
RepApply(r, err) ==
    /\ rapplied[r] < Len(rlog)
    /\ LET out == EngineApply(rcat[r], rlog[rapplied[r] + 1], rleader = r, err)
           n == [rapplied EXCEPT ![r] = @ + 1]
       IN /\ rcat' = [rcat EXCEPT ![r] = out.State]
          /\ IF \A q \in Replicas : n[q] >= 1
             THEN /\ rlog' = Tail(rlog)
                  /\ rapplied' = [q \in Replicas |-> n[q] - 1]
             ELSE /\ rapplied' = n
                  /\ UNCHANGED rlog
    /\ UNCHANGED rleader
    /\ UNCHANGED <<nodeVars, fsmVars, allocVars, moreVars>>

\* leadership moves to replica r
RepElect(r) ==
    /\ rleader # r
    /\ rleader' = r
    /\ UNCHANGED <<rcat, rlog, rapplied>>
    /\ UNCHANGED <<nodeVars, fsmVars, allocVars, moreVars>>

NextRep ==
    \/ \E c \in SeqCommands : RepCommit(c)
    \/ \E r \in Replicas, err \in SyncStateErrors : RepApply(r, err)
    \/ \E r \in Replicas : RepElect(r)

(***************************************************************************)
(* Specification SpecAlloc: API requests allocate a VIP for a new Service  *)
(* from the live Catalog and submit its AddService command.                *)
(***************************************************************************)
Requests == 1..MaxRequests

\* Ipam.Allocate: the first address of the range no Service of state uses
IpamAllocate(s) ==
    LET free == {i \in 1..Len(VipRange) : VipRange[i] \notin HostsOf(s)} IN
    IF free = {}
    THEN [ip |-> "", err |-> "no vip available"]
    ELSE [ip |-> VipRange[CHOOSE i \in free : \A j \in free : i <= j],
          err |-> "nil"]

\* a plausible slip: the allocator's error is not handed to the caller
AllocateVIPDropsError(svc, s) ==
    [svc |-> [svc EXCEPT !.Host = IpamAllocate(s).ip], err |-> "nil"]

\* None.AllocateVIP: the Service with its host set, and the error
AllocateVIP(svc, s) ==
    LET a == IpamAllocate(s) IN
    IF a.err # "nil"
    THEN [svc |-> svc, err |-> a.err]
    ELSE [svc |-> [svc EXCEPT !.Host = a.ip], err |-> "nil"]

NoRequest == [at |-> "idle", svc |-> [Name |-> "", Host |-> "", Port |-> 0,
                                      Protocol |-> ""]]

InitAlloc == areq = [r \in Requests |-> NoRequest]

\* a request for a new Service arrives: its host is blank
ApiNewService(r, name, port, protocol) ==
    /\ areq[r].at = "idle"
    /\ areq' = [areq EXCEPT ![r] =
                   [at |-> "AllocateVIP",
                    svc |-> [Name |-> name, Host |-> "", Port |-> port,
                             Protocol |-> protocol]]]
    /\ UNCHANGED <<nodeVars, fsmVars, repVars, moreVars>>

\* the request calls AllocateVIP against the live Catalog; on an error it ends
ApiAllocateVIP(r) ==
    /\ areq[r].at = "AllocateVIP"
    /\ LET a == AllocateVIP(areq[r].svc, cat) IN
       areq' = [areq EXCEPT ![r] =
                   IF a.err = "nil" THEN [at |-> "submit", svc |-> a.svc]
                   ELSE NoRequest]
    /\ UNCHANGED <<nodeVars, fsmVars, repVars, moreVars>>

\* the request's AddService command is committed and applied
ApiSubmit(r) ==
    /\ areq[r].at = "submit"
    /\ ApplyToCat([Op |-> AddServiceOp, Service |-> areq[r].svc])
    /\ areq' = [areq EXCEPT ![r] = NoRequest]
    /\ UNCHANGED <<nodeVars, repVars, moreVars>>

\* a DelService command for a Service of the Catalog is committed and applied
ApiDeleteService(k) ==
    /\ k \in DOMAIN cat.Services
    /\ ApplyToCat([Op |-> DelServiceOp, Service |-> cat.Services[k]])
    /\ UNCHANGED <<nodeVars, repVars, allocVars, moreVars>>

NextAlloc ==
    \/ \E r \in Requests, name \in Names, port \in Ports, protocol \in Protocols :
           ApiNewService(r, name, port, protocol)
    \/ \E r \in Requests : ApiAllocateVIP(r)
    \/ \E r \in Requests : ApiSubmit(r)
    \/ \E k \in ServiceIds : ApiDeleteService(k)

(***************************************************************************)
(* Specification SpecPool: one caller, again and again, allocates a VIP    *)
(* for a new Service and then adds the Service to the state.               *)
(***************************************************************************)
\* what the first four specifications leave unchanged
firstVars == <<nodeVars, fsmVars, repVars, allocVars>>

NoPoolRequest == [at |-> "idle", svc |-> NoRequest.svc, err |-> "nil"]

InitPool ==
    /\ pstate = NewFusisState
    /\ preq = NoPoolRequest

\* a new Service to allocate for: its host is blank
PoolNewService(name, port, protocol) ==
    /\ preq.at = "idle"
    /\ preq' = [at |-> "AllocateVIP",
                svc |-> [Name |-> name, Host |-> "", Port |-> port,
                         Protocol |-> protocol],
                err |-> "nil"]
    /\ UNCHANGED <<pstate, firstVars, readVars, syncVars, snapVars, gossipVars, leaveVars,
                   restoreVars,
                   startVars>>

\* AllocateVIP(&svc, state)
PoolAllocateVIP ==
    /\ preq.at = "AllocateVIP"
    /\ LET a == AllocateVIP(preq.svc, pstate) IN
       preq' = [at |-> IF a.err = "nil" THEN "AddService" ELSE "failed",
                svc |-> a.svc, err |-> a.err]
    /\ UNCHANGED <<pstate, firstVars, readVars, syncVars, snapVars, gossipVars, leaveVars,
                   restoreVars,
                   startVars>>

\* state.AddService(&svc) after a successful allocation
PoolAddService ==
    /\ preq.at = "AddService"
    /\ pstate' = AddService(pstate, preq.svc)
    /\ preq' = NoPoolRequest
    /\ UNCHANGED <<firstVars, readVars, syncVars, snapVars, gossipVars, leaveVars,
                   restoreVars,
                   startVars>>

\* the caller gives the Service up after a failed allocation
PoolGiveUp ==
    /\ preq.at = "failed"
    /\ preq' = NoPoolRequest
    /\ UNCHANGED <<pstate, firstVars, readVars, syncVars, snapVars, gossipVars, leaveVars,
                   restoreVars,
                   startVars>>

NextPool ==
    \/ \E name \in Names, port \in Ports, protocol \in Protocols :
           PoolNewService(name, port, protocol)
    \/ PoolAllocateVIP
    \/ PoolAddService
    \/ PoolGiveUp

(***************************************************************************)
(* Specification SpecRead: GetService called on a Catalog that commands    *)
(* are applied to.                                                         *)
(***************************************************************************)
NoRead == [at |-> "none", name |-> "", svc |-> "nil", err |-> "nil"]

InitRead ==
    /\ qstate = NewFusisState
    /\ got = NoRead

\* Apply of Command c on the Catalog
ReadApply(c) ==
    /\ qstate' = ApplyCommand(qstate, MarshalCommand(c))
    /\ got' = NoRead
    /\ UNCHANGED <<firstVars, poolVars, syncVars, snapVars, gossipVars, leaveVars,
                   restoreVars,
                   startVars>>

\* GetService(name); it writes to neither map
ReadGetService(name) ==
    /\ LET r == GetService(qstate, name) IN
       got' = [at |-> "GetService", name |-> name, svc |-> r.svc,
               err |-> r.err]
    /\ UNCHANGED <<qstate, firstVars, poolVars, syncVars, snapVars, gossipVars, leaveVars,
                   restoreVars,
                   startVars>>

NextRead ==
    \/ \E c \in SeqCommands : ReadApply(c)
    \/ \E name \in Names : ReadGetService(name)

(***************************************************************************)
(* Specification SpecSync: None.SyncVIPs called alone, on any interface    *)
(* contents and any state, with any outcome of each address operation.     *)
(***************************************************************************)
\* an address bound with the fusis label that is in no configured range
StrayVip == "10.0.0.9"

SyncInterfaces == SUBSET (Hosts \cup {StrayVip})

SyncStates == {NodeCatalog(S, {}) : S \in SUBSET NodeServices}

NoSyncCall ==
    [at |-> "idle", iface |-> {}, old |-> {}, state |-> NewFusisState,
     l |-> NoSync, tried |-> {}, failed |-> {}, ret |-> "none"]

InitSync == vs = NoSyncCall

\* SyncVIPs(state) is called with the interface holding the addresses bound
SyncCall(bound, s) ==
    /\ vs.at \in {"idle", "returned"}
    /\ vs' = [NoSyncCall EXCEPT !.at = "SyncVIPs", !.iface = bound,
                                !.old = bound, !.state = s]
    /\ UNCHANGED <<firstVars, poolVars, readVars, snapVars, gossipVars, leaveVars,
                   restoreVars,
                   startVars>>

\* net.GetFusisVipsIps, then state.GetServices, toAddMap and toRemove
SyncList(ok) ==
    /\ vs.at = "SyncVIPs"
    /\ vs' = IF ok
             THEN [vs EXCEPT !.at = "loops",
                             !.l = SyncVIPsPlan(vs.iface, GetServices(vs.state))]
             ELSE [vs EXCEPT !.at = "returned", !.ret = "list error"]
    /\ UNCHANGED <<firstVars, poolVars, readVars, snapVars, gossipVars, leaveVars,
                   restoreVars,
                   startVars>>

\* one iteration of the loop over toAddMap
SyncAddIp(ip, ok) ==
    /\ vs.at = "loops"
    /\ ip \in vs.l.toAdd
    /\ vs' = [vs EXCEPT !.iface = AddIp(@, ip, ok),
                        !.l.toAdd = @ \ {ip},
                        !.l.errors = IF ok THEN @ ELSE @ \cup {ip},
                        !.tried = @ \cup {<<"add", ip>>},
                        !.failed = IF ok THEN @ ELSE @ \cup {<<"add", ip>>}]
    /\ UNCHANGED <<firstVars, poolVars, readVars, snapVars, gossipVars, leaveVars,
                   restoreVars,
                   startVars>>

\* one iteration of the loop over toRemove, which follows the loop of adds
SyncDelIp(ip, ok) ==
    /\ vs.at = "loops"
    /\ vs.l.toAdd = {}
    /\ ip \in vs.l.toRemove
    /\ vs' = [vs EXCEPT !.iface = DelIp(@, ip, ok),
                        !.l.toRemove = @ \ {ip},
                        !.l.errors = IF ok THEN @ ELSE @ \cup {ip},
                        !.tried = @ \cup {<<"del", ip>>},
                        !.failed = IF ok THEN @ ELSE @ \cup {<<"del", ip>>}]
    /\ UNCHANGED <<firstVars, poolVars, readVars, snapVars, gossipVars, leaveVars,
                   restoreVars,
                   startVars>>

\* the return after the two loops
SyncReturn ==
    /\ vs.at = "loops"
    /\ vs.l.toAdd = {}
    /\ vs.l.toRemove = {}
    /\ vs' = [vs EXCEPT !.at = "returned", !.ret = SyncVIPsError(vs.l.errors)]
    /\ UNCHANGED <<firstVars, poolVars, readVars, snapVars, gossipVars, leaveVars,
                   restoreVars,
                   startVars>>

NextSync ==
    \/ \E bound \in SyncInterfaces, s \in SyncStates : SyncCall(bound, s)
    \/ \E ok \in BOOLEAN : SyncList(ok)
    \/ \E ip \in Hosts \cup {StrayVip}, ok \in BOOLEAN : SyncAddIp(ip, ok)
    \/ \E ip \in Hosts \cup {StrayVip}, ok \in BOOLEAN : SyncDelIp(ip, ok)
    \/ SyncReturn

(***************************************************************************)
(* Specification SpecSnap: Engine.Snapshot runs while commands are applied *)
(* by another goroutine.  GetServices ranges over the Services map, one    *)
(* Service at a time, and scans the Destinations map for each; Apply takes *)
(* no lock, so its map writes fall between those reads.  Go leaves such a  *)
(* read undefined: it sees the maps as they are at each read, misses or    *)
(* sees a key added meanwhile, or the runtime stops the process.           *)
(***************************************************************************)
NoSnapshot ==
    [at |-> "idle", start |-> {}, visited |-> {}, out |-> {}, seen |-> {},
     races |-> 0]

InitSnap ==
    /\ snstate = NewFusisState
    /\ elock = ""
    /\ sn = NoSnapshot

\* Apply's mutation of the Catalog; it does not take Engine's mutex
SnapApply(c) ==
    /\ sn.at # "fatal"
    /\ sn.at = "GetServices" => sn.races < MaxRace
    /\ snstate' = ApplyCommand(snstate, MarshalCommand(c))
    /\ sn' = IF sn.at = "GetServices"
             THEN [sn EXCEPT !.seen = @ \cup {snstate'}, !.races = @ + 1]
             ELSE NoSnapshot
    /\ UNCHANGED <<elock, firstVars, poolVars, readVars, syncVars, gossipVars, leaveVars,
                   restoreVars,
                   startVars>>

\* Snapshot: e.Lock() and the start of e.State.GetServices()
SnapLock ==
    /\ sn.at \in {"idle", "returned"}
    /\ elock = ""
    /\ elock' = "Snapshot"
    /\ sn' = [NoSnapshot EXCEPT !.at = "GetServices",
                                !.start = DOMAIN snstate.Services,
                                !.seen = {snstate}]
    /\ UNCHANGED <<snstate, firstVars, poolVars, readVars, syncVars, gossipVars, leaveVars,
                   restoreVars,
                   startVars>>

\* one iteration of GetServices' loop, for the Service under key k
SnapVisit(k) ==
    /\ sn.at = "GetServices"
    /\ k \in DOMAIN snstate.Services \ sn.visited
    /\ sn' = [sn EXCEPT
                 !.visited = @ \cup {k},
                 !.out = @ \cup {[Service |-> snstate.Services[k],
                                  Destinations |->
                                      getDestinations(snstate,
                                                      snstate.Services[k])]}]
    /\ UNCHANGED <<snstate, elock, firstVars, poolVars, readVars, syncVars, gossipVars, leaveVars,
                   restoreVars,
                   startVars>>

\* the loop ends when every key it began with and still finds was visited;
\* Snapshot returns the slice and the deferred e.Unlock() runs
SnapReturn ==
    /\ sn.at = "GetServices"
    /\ (sn.start \cap DOMAIN snstate.Services) \subseteq sn.visited
    /\ sn' = [sn EXCEPT !.at = "returned"]
    /\ elock' = ""
    /\ UNCHANGED <<snstate, firstVars, poolVars, readVars, syncVars, gossipVars, leaveVars,
                   restoreVars,
                   startVars>>

\* the runtime finds the map written during the iteration and stops the
\* process
SnapFatal ==
    /\ sn.at = "GetServices"
    /\ sn.races > 0
    /\ sn' = [sn EXCEPT !.at = "fatal"]
    /\ UNCHANGED <<snstate, elock, firstVars, poolVars, readVars, syncVars, gossipVars, leaveVars,
                   restoreVars,
                   startVars>>

NextSnap ==
    \/ \E c \in SeqCommands : SnapApply(c)
    \/ SnapLock
    \/ \E k \in ServiceIds : SnapVisit(k)
    \/ SnapReturn
    \/ SnapFatal

(***************************************************************************)
(* Specification SpecGossip: handleEvents takes membership events one at   *)
(* a time and handles each member of an event in turn, while leadership    *)
(* and the Catalog change beside it.                                       *)
(***************************************************************************)
\* serf.Member: Tags["x"] of a member without tag x is ""
Tags(role, raftPort) ==
    [tag \in {"role", "raft-port"} |-> IF tag = "role" THEN role ELSE raftPort]

GossipMembers ==
    {[Name |-> "lb2", Addr |-> "10.1.0.2", Tags |-> Tags("balancer", "4382")],
     [Name |-> "d1", Addr |-> "192.168.1.10", Tags |-> Tags("agent", "")],
     [Name |-> "d2", Addr |-> "192.168.1.11", Tags |-> Tags("agent", "")]}

RECURSIVE SeqsUpTo(_, _)
\* the non-empty sequences over S of length at most n
SeqsUpTo(S, n) ==
    IF n = 0 THEN {}
    ELSE {<<x>> : x \in S}
            \cup {Append(s, x) : s \in SeqsUpTo(S, n - 1), x \in S}

\* serf.MemberEvent values
GossipEvents ==
    [Type : {"member-join", "member-leave", "member-failed"},
     Members : SeqsUpTo(GossipMembers, MaxMembers)]

\* a plausible slip: every member counts as a balancer
isBalancerAlways(m) == TRUE

isBalancer(m) == m.Tags["role"] = "balancer"

\* strconv.Atoi on a raft-port tag
Atoi(tag) ==
    CASE tag = "4382" -> [n |-> 4382, err |-> "nil"]
      [] tag = "4383" -> [n |-> 4383, err |-> "nil"]
      [] OTHER -> [n |-> 0, err |-> "invalid syntax"]

\* addMemberToPool: fmt.Sprintf("%s:%v", m.Addr.String(), m.Tags["raft-port"])
JoinPeerAddr(m) == m.Addr \o ":" \o m.Tags["raft-port"]

\* handleBalancerLeave: (&net.TCPAddr{IP: m.Addr, Port: raftPort}).String()
LeavePeerAddr(m) == m.Addr \o ":" \o ToString(Atoi(m.Tags["raft-port"]).n)

\* a plausible slip: every error of the removal is reported
RemovePeerReportedAll(err) == err # "nil"

\* handleBalancerLeave: whether the error of RemovePeer is logged as one
RemovePeerReported(err) == err # "nil" /\ err # "unknown peer"

\* Balancer.DeleteDestination(dst): the Command it submits to raft
DeleteDestinationCommand(dst) ==
    [Op |-> DelDestinationOp, Destination |-> dst]

NoCall == [op |-> "none"]

NoEvent ==
    [at |-> "recv", Type |-> "", Members |-> <<>>, i |-> 0,
     leader |-> FALSE, steps |-> <<>>]

InitGossip ==
    /\ gstate = NewFusisState
    /\ gleader = FALSE
    /\ gev = NoEvent

\* the node wins or loses the leadership
GossipElect ==
    /\ gleader' = ~gleader
    /\ UNCHANGED <<gstate, gev, firstVars, poolVars, readVars, syncVars,
                   snapVars, leaveVars,
                   restoreVars,
                   startVars>>

\* a committed Command is applied to the Catalog
GossipApply(c) ==
    /\ gstate' = ApplyCommand(gstate, MarshalCommand(c))
    /\ UNCHANGED <<gleader, gev, firstVars, poolVars, readVars, syncVars,
                   snapVars, leaveVars,
                   restoreVars,
                   startVars>>

\* handleEvents: e := <-b.eventCh and the switch on its type
handleEventsRecv(e) ==
    /\ gev.at = "recv"
    /\ gev' = [NoEvent EXCEPT
                  !.at = IF e.Type = "member-join" THEN "handleMemberJoin"
                         ELSE "handleMemberLeave",
                  !.Type = e.Type, !.Members = e.Members, !.i = 1]
    /\ UNCHANGED <<gstate, gleader, firstVars, poolVars, readVars, syncVars,
                   snapVars, leaveVars,
                   restoreVars,
                   startVars>>

\* handleMemberJoin: if !b.IsLeader() { return }
handleMemberJoin ==
    /\ gev.at = "handleMemberJoin"
    /\ gev' = [gev EXCEPT !.leader = gleader,
                          !.at = IF gleader THEN "addMemberToPool" ELSE "recv"]
    /\ UNCHANGED <<gstate, gleader, firstVars, poolVars, readVars, syncVars,
                   snapVars, leaveVars,
                   restoreVars,
                   startVars>>

\* what the handler goes on with after member i
NextMember(e) == IF e.i = Len(e.Members) THEN "recv" ELSE e.at

\* handleMemberJoin's loop, one member: addMemberToPool when isBalancer;
\* err is what the AddPeer future returns
addMemberToPool(err) ==
    /\ gev.at = "addMemberToPool"
    /\ LET m == gev.Members[gev.i] IN
       gev' = [gev EXCEPT
                 !.i = @ + 1,
                 !.at = NextMember(gev),
                 !.steps = Append(@,
                     IF isBalancer(m)
                     THEN [m |-> m, leader |-> gleader,
                           call |-> [op |-> "AddPeer", addr |-> JoinPeerAddr(m)],
                           err |-> err, reported |-> err # "nil",
                           cmd |-> NoCall]
                     ELSE [m |-> m, leader |-> gleader, call |-> NoCall,
                           err |-> "nil", reported |-> FALSE,
                           cmd |-> NoCall])]
    /\ UNCHANGED <<gstate, gleader, firstVars, poolVars, readVars, syncVars,
                   snapVars, leaveVars,
                   restoreVars,
                   startVars>>

\* handleBalancerLeave(m); err is what the RemovePeer future returns
handleBalancerLeave(m, err) ==
    IF ~gleader
    THEN [m |-> m, leader |-> gleader, call |-> NoCall, err |-> "nil",
          reported |-> FALSE, cmd |-> NoCall]
    ELSE [m |-> m, leader |-> gleader,
          call |-> [op |-> "RemovePeer", addr |-> LeavePeerAddr(m)],
          err |-> err,
          reported |-> \/ Atoi(m.Tags["raft-port"]).err # "nil"
                       \/ RemovePeerReported(err),
          cmd |-> NoCall]

\* handleAgentLeave(m): GetDestination by the member's name, then
\* DeleteDestination of what was found
handleAgentLeave(m) ==
    LET r == GetDestination(gstate, m.Name) IN
    IF r.err # "nil"
    THEN [m |-> m, leader |-> gleader, call |-> NoCall, err |-> r.err,
          reported |-> TRUE, cmd |-> NoCall]
    ELSE [m |-> m, leader |-> gleader, call |-> NoCall, err |-> "nil",
          reported |-> FALSE, cmd |-> DeleteDestinationCommand(r.dst)]

\* handleMemberLeave's loop, one member
handleMemberLeave(err) ==
    /\ gev.at = "handleMemberLeave"
    /\ LET m == gev.Members[gev.i] IN
       gev' = [gev EXCEPT
                 !.i = @ + 1,
                 !.at = NextMember(gev),
                 !.steps = Append(@, IF isBalancer(m)
                                     THEN handleBalancerLeave(m, err)
                                     ELSE handleAgentLeave(m))]
    /\ UNCHANGED <<gstate, gleader, firstVars, poolVars, readVars, syncVars,
                   snapVars, leaveVars,
                   restoreVars,
                   startVars>>

NextGossip ==
    \/ GossipElect
    \/ \E c \in NodeCommands : GossipApply(c)
    \/ \E e \in GossipEvents : handleEventsRecv(e)
    \/ handleMemberJoin
    \/ \E err \in {"nil", "not leader"} : addMemberToPool(err)
    \/ \E err \in {"nil", "unknown peer", "not leader"} : handleMemberLeave(err)

(***************************************************************************)
(* Specification SpecLeave: Balancer.Shutdown, which begins with Leave.    *)
(***************************************************************************)
NoShutdown ==
    [at |-> "idle", numPeers |-> 0, isLeader |-> FALSE, polls |-> 0,
     expired |-> FALSE, steps |-> <<>>]

InitLeave ==
    /\ sraft = [leader |-> FALSE, peers |-> 0, store |-> FALSE]
    /\ sd = NoShutdown

\* what the other specifications' state does while the node shuts down
leaveUnchanged ==
    UNCHANGED <<firstVars, poolVars, readVars, syncVars, snapVars, gossipVars,
                   restoreVars,
                   startVars>>

\* Shutdown is called on a node that is leader or not, with some other
\* peers, with or without a log store on disk
ShutdownCall(leader, peers, store) ==
    /\ sd.at = "idle"
    /\ sraft' = [leader |-> leader, peers |-> peers, store |-> store]
    /\ sd' = [NoShutdown EXCEPT !.at = "numOtherPeers"]
    /\ leaveUnchanged

\* the new leader removes a peer; the leaving node's peer store follows
PeerRemoved ==
    /\ sd.at = "wait"
    /\ sraft.peers > 0
    /\ sraft' = [sraft EXCEPT !.peers = @ - 1]
    /\ UNCHANGED sd
    /\ leaveUnchanged

\* Leave: numPeers, err := b.numOtherPeers(); on an error Leave returns
LeaveNumOtherPeers(ok) ==
    /\ sd.at = "numOtherPeers"
    /\ sd' = IF ok
             THEN [sd EXCEPT !.numPeers = sraft.peers, !.at = "IsLeader"]
             ELSE [sd EXCEPT !.at = "serf.Shutdown"]
    /\ UNCHANGED sraft
    /\ leaveUnchanged

\* Leave: isLeader := b.IsLeader()
LeaveIsLeader ==
    /\ sd.at = "IsLeader"
    /\ sd' = [sd EXCEPT !.isLeader = sraft.leader, !.at = "serf.Leave"]
    /\ UNCHANGED sraft
    /\ leaveUnchanged

\* Leave: b.serf.Leave(), its error only logged; then the wait, if !isLeader
LeaveSerfLeave ==
    /\ sd.at = "serf.Leave"
    /\ sd' = [sd EXCEPT
                 !.steps = IF sd.isLeader THEN Append(@, "serf.Leave")
                           ELSE @ \o <<"serf.Leave", "wait">>,
                 !.at = IF sd.isLeader THEN "serf.Shutdown" ELSE "wait"]
    /\ UNCHANGED sraft
    /\ leaveUnchanged

\* time passes: limit := time.Now().Add(raftRemoveGracePeriod) is reached
LeaveGraceElapses ==
    /\ sd.at = "wait"
    /\ ~sd.expired
    /\ sd' = [sd EXCEPT !.expired = TRUE]
    /\ UNCHANGED sraft
    /\ leaveUnchanged

\* one turn of: for numPeers > 0 && time.Now().Before(limit) { ... }
\* the peer store is read again; an error or no peer left ends the loop,
\* otherwise the goroutine sleeps
LeaveWaitPoll(ok) ==
    /\ sd.at = "wait"
    /\ sd.numPeers > 0
    /\ ~sd.expired
    /\ sd.polls < MaxPolls
    /\ sd' = IF ~ok THEN [sd EXCEPT !.at = "serf.Shutdown"]
             ELSE IF sraft.peers = 0
             THEN [sd EXCEPT !.numPeers = 0, !.at = "serf.Shutdown"]
             ELSE [sd EXCEPT !.numPeers = sraft.peers, !.polls = @ + 1]
    /\ UNCHANGED sraft
    /\ leaveUnchanged

\* the loop's condition is false: no peer left, or the limit has passed
LeaveWaitEnd ==
    /\ sd.at = "wait"
    /\ (sd.numPeers = 0 \/ sd.expired)
    /\ sd' = [sd EXCEPT !.at = "serf.Shutdown"]
    /\ UNCHANGED sraft
    /\ leaveUnchanged

\* Shutdown: b.serf.Shutdown()
ShutdownSerf ==
    /\ sd.at = "serf.Shutdown"
    /\ sd' = [sd EXCEPT !.steps = Append(@, "serf.Shutdown"),
                        !.at = "raft.Shutdown"]
    /\ UNCHANGED sraft
    /\ leaveUnchanged

\* Shutdown: b.raft.Shutdown(), its error only logged
ShutdownRaft ==
    /\ sd.at = "raft.Shutdown"
    /\ sd' = [sd EXCEPT !.steps = Append(@, "raft.Shutdown"),
                        !.at = "raftStore.Close"]
    /\ UNCHANGED sraft
    /\ leaveUnchanged

\* Shutdown: if b.raftStore != nil { b.raftStore.Close() }
ShutdownStore ==
    /\ sd.at = "raftStore.Close"
    /\ sd' = [sd EXCEPT
                 !.steps = IF sraft.store THEN Append(@, "raftStore.Close")
                           ELSE @,
                 !.at = "SetPeers"]
    /\ UNCHANGED sraft
    /\ leaveUnchanged

\* Shutdown: b.raftPeers.SetPeers(nil)
ShutdownSetPeers ==
    /\ sd.at = "SetPeers"
    /\ sd' = [sd EXCEPT !.steps = Append(@, "SetPeers"), !.at = "done"]
    /\ UNCHANGED sraft
    /\ leaveUnchanged

NextLeave ==
    \/ \E leader \in BOOLEAN, peers \in 0..MaxPeers, store \in BOOLEAN :
           ShutdownCall(leader, peers, store)
    \/ PeerRemoved
    \/ \E ok \in BOOLEAN : LeaveNumOtherPeers(ok)
    \/ LeaveIsLeader
    \/ LeaveSerfLeave
    \/ \E ok \in BOOLEAN : LeaveWaitPoll(ok)
    \/ LeaveGraceElapses
    \/ LeaveWaitEnd
    \/ ShutdownSerf
    \/ ShutdownRaft
    \/ ShutdownStore
    \/ ShutdownSetPeers

(***************************************************************************)
(* Specification SpecRestore: Engine.Restore on a Catalog that is not      *)
(* empty, as far as the Catalog goes.                                      *)
(***************************************************************************)
\* the snapshots the node is given: of Catalogs of up to two Services
RestoreSnapshots ==
    {Snapshot(NodeCatalog(S, D)) :
        S \in {X \in SUBSET SeqServices : Cardinality(X) <= 2},
        D \in SUBSET SeqDestinations}

NoRestore == [at |-> "none"]

InitRestore ==
    /\ tstate = NewFusisState
    /\ tlast = NoRestore

\* Apply of Command c on the Catalog
RestoreApply(c) ==
    /\ tstate' = ApplyCommand(tstate, MarshalCommand(c))
    /\ tlast' = NoRestore
    /\ UNCHANGED <<firstVars, poolVars, readVars, syncVars, snapVars,
                   gossipVars, leaveVars,
                   startVars>>

\* Restore of reader rc; when rc does not decode Restore returns the error
\* before it touches the Catalog
RestoreCall(rc, decodes) ==
    /\ tstate' = IF decodes THEN RestoreState(tstate, rc) ELSE tstate
    /\ tlast' = [at |-> "Restore", rc |-> rc, decodes |-> decodes,
                 before |-> tstate]
    /\ UNCHANGED <<firstVars, poolVars, readVars, syncVars, snapVars,
                   gossipVars, leaveVars,
                   startVars>>

NextRestore ==
    \/ \E c \in SeqCommands : RestoreApply(c)
    \/ \E rc \in RestoreSnapshots, decodes \in BOOLEAN : RestoreCall(rc, decodes)

(***************************************************************************)
(* Specification SpecStart: setupRaft starts watchState, constructs the    *)
(* consensus node and assigns it to b.raft, while the consensus runtime    *)
(* calls Restore and Apply on the Engine.                                  *)
(***************************************************************************)
InitStart ==
    st = [at |-> "go watchState", raft |-> "nil", watcher |-> "not started",
          raftState |-> "Follower", fsm |-> "idle", op |-> "none",
          calls |-> 0, answered |-> 0, ret |-> "none", isLeader |-> FALSE,
          nilRead |-> FALSE]

\* the process is running: a panic in any goroutine ends it
Running == st.watcher # "panic"

startUnchanged ==
    UNCHANGED <<firstVars, poolVars, readVars, syncVars, snapVars, gossipVars,
                leaveVars, restoreVars>>

\* setupRaft: go b.watchState()
StartWatchState ==
    /\ st.at = "go watchState"
    /\ st' = [st EXCEPT !.at = "NewRaft", !.watcher = "recv"]
    /\ startUnchanged

\* raft.NewRaft, in setupRaft's goroutine, calls Restore on the Engine for a
\* snapshot it finds; Restore blocks sending on StateCh
StartNewRaftRestore ==
    /\ Running
    /\ st.at = "NewRaft"
    /\ st.fsm \in {"idle", "returned"}
    /\ st.calls < MaxStartupCalls
    /\ st' = [st EXCEPT !.fsm = "publish", !.op = "Restore", !.calls = @ + 1]
    /\ startUnchanged

\* raft.NewRaft returns the node, its goroutines started
StartNewRaftReturn ==
    /\ Running
    /\ st.at = "NewRaft"
    /\ st.fsm \in {"idle", "returned"}
    /\ st' = [st EXCEPT !.at = "b.raft = ra"]
    /\ startUnchanged

\* setupRaft: b.raft = ra
StartAssignRaft ==
    /\ Running
    /\ st.at = "b.raft = ra"
    /\ st' = [st EXCEPT !.raft = "ra", !.at = "done"]
    /\ startUnchanged

\* the node's own goroutine moves it between Follower, Candidate and Leader
StartRaftState(s) ==
    /\ Running
    /\ st.at \in {"b.raft = ra", "done"}
    /\ s # st.raftState
    /\ st' = [st EXCEPT !.raftState = s]
    /\ startUnchanged

\* the node's FSM goroutine calls Apply or Restore; it is running from the
\* moment NewRaft returns
StartFsmCall(op) ==
    /\ Running
    /\ st.at \in {"b.raft = ra", "done"}
    /\ st.fsm \in {"idle", "returned"}
    /\ st.calls < MaxStartupCalls
    /\ st' = [st EXCEPT !.fsm = "publish", !.op = op, !.calls = @ + 1]
    /\ startUnchanged

\* watchState: case rsp := <-b.engine.StateCh
StartWatchRecv ==
    /\ st.watcher = "recv"
    /\ st.fsm = "publish"
    /\ st' = [st EXCEPT !.watcher = "IsLeader", !.fsm = "waiting"]
    /\ startUnchanged

\* handleStateChange: b.IsLeader(), which is b.raft.State() == raft.Leader;
\* on a nil b.raft the read of the node's state panics
StartWatchIsLeader ==
    /\ st.watcher = "IsLeader"
    /\ st' = IF st.raft = "nil"
             THEN [st EXCEPT !.watcher = "panic", !.nilRead = TRUE]
             ELSE [st EXCEPT !.watcher = "reply",
                             !.isLeader = (st.raftState = "Leader")]
    /\ startUnchanged

\* watchState: rsp <- b.handleStateChange(); Apply or Restore returns it
StartWatchReply(err) ==
    /\ st.watcher = "reply"
    /\ st' = [st EXCEPT !.watcher = "recv", !.fsm = "returned",
                        !.ret = err, !.answered = @ + 1]
    /\ startUnchanged

NextStart ==
    \/ StartWatchState
    \/ StartNewRaftRestore
    \/ StartNewRaftReturn
    \/ StartAssignRaft
    \/ \E s \in {"Follower", "Candidate", "Leader"} : StartRaftState(s)
    \/ \E op \in {"Apply", "Restore"} : StartFsmCall(op)
    \/ StartWatchRecv
    \/ StartWatchIsLeader
    \/ \E err \in {"nil", "sync error"} : StartWatchReply(err)

InitMore ==
    /\ InitPool /\ InitRead /\ InitSync /\ InitSnap /\ InitGossip
    /\ InitLeave /\ InitRestore /\ InitStart

(***************************************************************************)
(* The specifications.                                                     *)
(***************************************************************************)
vars == <<nodeVars, fsmVars, repVars, allocVars, moreVars>>

Init == InitNode /\ InitFSM /\ InitRep /\ InitAlloc /\ InitMore

Next == NextNode

Spec == Init /\ [][Next]_vars

SpecFSM == Init /\ [][NextFSM]_vars

SpecRep == Init /\ [][NextRep]_vars

SpecAlloc == Init /\ [][NextAlloc]_vars

SpecPool == Init /\ [][NextPool]_vars

SpecRead == Init /\ [][NextRead]_vars

SpecSync == Init /\ [][NextSync]_vars

SpecSnap == Init /\ [][NextSnap]_vars

SpecGossip == Init /\ [][NextGossip]_vars

SpecLeave == Init /\ [][NextLeave]_vars

SpecRestore == Init /\ [][NextRestore]_vars

SpecStart == Init /\ [][NextStart]_vars

(***************************************************************************)
(* Claims about the node (specification Spec).                             *)
(***************************************************************************)
\* C1, as stated: whenever Apply or Restore has returned, handleStateChange
\* has run for the request that call published, and the value returned is the
\* error that handleStateChange call returned.
C1_ReturnsTheReconcilerError ==
    fsmPc = "returned" => (passErr # "none" /\ fsmRet = passErr)

\* C1, amended: the same for every Apply and for every Restore whose reader
\* decodes; a Restore whose reader does not decode returns the decoder's
\* error without publishing a request (handleStateChange has not run for it).
C1_ReturnsTheReconcilerErrorIfDecoded ==
    fsmPc = "returned" =>
        IF fsmOp = "Restore" /\ fsmRet = "decode error"
        THEN passErr = "none"
        ELSE passErr # "none" /\ fsmRet = passErr

\* C1's case: an Apply has returned the reconciler's error
C1_Witness ==
    /\ fsmPc = "returned"
    /\ fsmOp = "Apply"
    /\ passErr = "ipvs error"
    /\ fsmRet = "ipvs error"

\* C2: when an address add or remove failed in the VIP synchronisation of the
\* pass an Apply or Restore triggered, that call returns a non-nil error.
C2_AddressFailureReachesTheClient ==
    (fsmPc = "returned" /\ syncErr["watchState"] = "multiple errors")
        => fsmRet # "nil"

\* C3: once the leader watcher has finished handling the node's last loss of
\* leadership, flush succeeded, no VIP is bound while the node stays non-leader.
C3_NoVipOnFormerLeader == lostHandled => vips = {}

\* C4: when a pass completes on the leader in which listing and every address
\* add and remove succeeded (handleStateChange's, or the leader-won handler's
\* flush and setVips), the bound addresses are the hosts of the Catalog.
C4_BoundEqualsCatalogHosts ==
    [][/\ (/\ pc["watchState"] = "SyncState"
           /\ pc'["watchState"] = "reply"
           /\ syncErr["watchState"] = "nil"
           /\ IsLeader)
              => vips' = HostsOf(state')
       /\ (/\ pc["watchLeaderChanges"] \in {"GetServices", "AddIp", "DelIp"}
           /\ pc'["watchLeaderChanges"] = "Unlock"
           /\ flushed
           /\ syncErr'["watchLeaderChanges"] = "nil"
           /\ IsLeader)
              => vips' = HostsOf(state')]_vars

(***************************************************************************)
(* Claims about the Catalog under the FSM (SpecRep, SpecFSM, SpecAlloc).   *)
(***************************************************************************)
\* C5: two replicas that have applied the same prefix of the log hold equal
\* Catalogs, whichever of them is leader and whatever their reconciliations
\* returned.
C5_ReplicasAgree == rapplied["A"] = rapplied["B"] => rcat["A"] = rcat["B"]

\* C5's case: both replicas have applied the same commands, some of them while
\* the other replica was the leader, and hold a Service and a Destination
C5_Witness ==
    /\ rapplied["A"] = rapplied["B"]
    /\ rlog = <<>>
    /\ rleader = "B"
    /\ DOMAIN rcat["A"].Services # {}
    /\ DOMAIN rcat["B"].Destinations # {}

\* every Destination of s references a Service of s
NoOrphans(s) ==
    \A k \in DOMAIN s.Destinations :
        s.Destinations[k].ServiceId \in DOMAIN s.Services

\* C6: a snapshot of the Catalog restored on an empty node yields a Catalog
\* with the same Services and the same Destinations.
C6_SnapshotRestoreRoundTrip == restoredValid => restored = cat

\* C7: after a DelService command has been applied (to a Catalog in which every
\* Destination had its Service), no Destination of the Catalog has the deleted
\* Service's id as its service-id.
C7_DelServiceDeletesDestinations ==
    [][(lastOp' = "Apply" /\ lastCmd'.Op = DelServiceOp /\ NoOrphans(cat))
          => \A k \in DOMAIN cat'.Destinations :
                 cat'.Destinations[k].ServiceId # SvcGetId(lastCmd'.Service)]_vars

\* C8: after any Apply has returned, every Destination of the Catalog
\* references a Service of the Catalog.
C8_NoOrphanAfterApply == lastOp = "Apply" => NoOrphans(cat)

\* C9, as stated: an add whose id is present and a delete whose id is absent
\* leave both maps unchanged.
C9_DuplicateAddLeavesUnchanged ==
    [][(/\ lastOp' = "Apply"
        /\ \/ lastCmd'.Op \in {AddServiceOp, AddDestinationOp} /\ present'
           \/ lastCmd'.Op \in {DelServiceOp, DelDestinationOp} /\ ~present')
          => cat' = cat]_vars

\* C9, amended: an add whose id is present replaces the entry under that id by
\* the new value and leaves every other entry and the other map unchanged; a
\* delete whose id is absent leaves both maps unchanged; a command applied
\* again right after itself leaves the Catalog unchanged.
C9_DuplicateAddOverwrites ==
    [][lastOp' = "Apply" =>
          /\ (lastCmd'.Op = AddServiceOp /\ present')
                => cat' = [cat EXCEPT
                             !.Services[SvcGetId(lastCmd'.Service)] =
                                 lastCmd'.Service]
          /\ (lastCmd'.Op = AddDestinationOp /\ present')
                => cat' = [cat EXCEPT
                             !.Destinations[DstGetId(lastCmd'.Destination)] =
                                 lastCmd'.Destination]
          /\ (lastCmd'.Op \in {DelServiceOp, DelDestinationOp} /\ ~present')
                => cat' = cat
          /\ (lastOp = "Apply" /\ lastCmd' = lastCmd) => cat' = cat]_vars

\* C9's case: an AddService whose id was present has been applied, and the
\* Catalog holds the value it carried
C9_Witness ==
    /\ lastOp = "Apply"
    /\ lastCmd.Op = AddServiceOp
    /\ present
    /\ cat.Services[SvcGetId(lastCmd.Service)] = lastCmd.Service
    /\ DOMAIN cat.Destinations # {}

\* C10: no two Services of the Catalog have the same host, and no Service has
\* a blank host.
C10_HostsUniqueAndNonEmpty ==
    \A k1, k2 \in DOMAIN cat.Services :
        /\ cat.Services[k1].Host # ""
        /\ k1 # k2 => cat.Services[k1].Host # cat.Services[k2].Host

(***************************************************************************)
(* Claims about the Provider and the Catalog's reads.                      *)
(***************************************************************************)
\* C11: when one caller allocates and then adds, starting from the empty
\* state, every AllocateVIP call made while an address of the range is free
\* returns nil and sets the Service's host to an address of the range that no
\* Service of the state has, changing nothing else of the Service; every call
\* made when all addresses are in use returns the pool-exhausted error and
\* leaves the Service as it was.
C11_AllocatesDistinctUntilExhausted ==
    [][(preq.at = "AllocateVIP" /\ preq'.at # "AllocateVIP") =>
          IF Hosts \subseteq HostsOf(pstate)
          THEN /\ preq'.err = "no vip available"
               /\ preq'.at = "failed"
               /\ preq'.svc = preq.svc
          ELSE /\ preq'.err = "nil"
               /\ preq'.svc.Host \in Hosts \ HostsOf(pstate)
               /\ preq'.svc = [preq.svc EXCEPT !.Host = preq'.svc.Host]]_vars

\* C11's case: every address of the range was given to a Service of the
\* state, and the next AllocateVIP has returned the pool-exhausted error
C11_Witness ==
    /\ preq.at = "failed"
    /\ preq.err = "no vip available"
    /\ preq.svc.Host = ""
    /\ HostsOf(pstate) = Hosts
    /\ Cardinality(DOMAIN pstate.Services) = Len(VipRange)

\* the Services of s that have the name
ServicesNamed(s, name) ==
    {k \in DOMAIN s.Services : s.Services[k].Name = name}

\* C12: GetService(name) returns, for a Service of the Catalog with that name,
\* a copy whose Destinations are the Catalog's Destinations with that
\* Service's id as service-id, and the not-found error when the Catalog has
\* no Service with that name.
C12_GetServiceFindsByName ==
    got.at = "GetService" =>
        IF ServicesNamed(qstate, got.name) = {}
        THEN got.err = "service not found"
        ELSE /\ got.err = "nil"
             /\ \E k \in ServicesNamed(qstate, got.name) :
                    /\ got.svc.Service = qstate.Services[k]
                    /\ got.svc.Destinations =
                           {qstate.Destinations[d] :
                               d \in {x \in DOMAIN qstate.Destinations :
                                          qstate.Destinations[x].ServiceId = k}}

(***************************************************************************)
(* Claims about ordering and serialization on the node (Spec).             *)
(***************************************************************************)
\* C13: when Apply mutates the Catalog for a command, the state-change
\* watcher is back at its receive, and if the FSM's previous call was an
\* Apply, that Apply has returned and the pass for its request has run to
\* the end.
C13_ReconciledBeforeNextCommand ==
    [][(fsmPc # "publish" /\ fsmPc' = "publish" /\ fsmOp' = "Apply") =>
          /\ pc["watchState"] = "recv"
          /\ fsmPc \in {"idle", "returned"}
          /\ fsmOp = "Apply" => (fsmPc = "returned" /\ passErr # "none")]_vars

\* C13's case: a command has been applied after an earlier request whose
\* pass returned an error, and waits for its own pass
C13_Witness ==
    /\ fsmPc = "publish"
    /\ fsmOp = "Apply"
    /\ passErr = "none"
    /\ fsmRet = "ipvs error"
    /\ pc["watchState"] = "recv"
    /\ DOMAIN state.Services # {}
    /\ DOMAIN state.Destinations # {}

\* where watchLeaderChanges stands between its Lock and its Unlock
LeaderChangeSteps ==
    {"flushVips", "SyncVIPs", "GetServices", "AddIp", "DelIp", "Unlock"}

\* C14: the leader-change watcher holds the Balancer's mutex at every step of
\* handling an event from its flush to its Unlock, and it receives the next
\* leader-change event only when it has finished the previous one and
\* released the mutex.
C14_LeaderChangesSerialized ==
    [][/\ pc'["watchLeaderChanges"] \in LeaderChangeSteps
          => mutex' = "watchLeaderChanges"
       /\ Len(leaderCh') < Len(leaderCh)
          => (pc["watchLeaderChanges"] = "recv"
              /\ mutex # "watchLeaderChanges")]_vars

\* C14's case: the watcher is binding an address for a leader-won event
\* while the leader-lost event that follows it waits on LeaderCh
C14_Witness ==
    /\ pc["watchLeaderChanges"] = "AddIp"
    /\ lIsLeader
    /\ mutex = "watchLeaderChanges"
    /\ leaderCh = <<FALSE>>

\* C15: the slice Snapshot returns is the Catalog, every Service with its
\* Destinations, as it stood at some moment between the call and the return,
\* that is after some prefix of the applied commands.
C15_SnapshotIsOneCatalog ==
    sn.at = "returned" => \E s \in sn.seen : sn.out = GetServices(s)

\* C16: when SyncVIPs has returned, either listing failed, it returned an
\* error, and it attempted nothing and left the interface as it was; or it
\* attempted the add of every host of the state that was not bound and the
\* removal of every bound address that is no Service's host, whichever of
\* them failed, and it returned an error exactly when one of them failed.
C16_SyncVIPsAttemptsAll ==
    vs.at = "returned" =>
        IF vs.ret = "list error"
        THEN vs.tried = {} /\ vs.iface = vs.old
        ELSE /\ vs.tried =
                  {<<"add", ip>> : ip \in HostsOf(vs.state) \ vs.old}
                     \cup {<<"del", ip>> : ip \in vs.old \ HostsOf(vs.state)}
             /\ (vs.ret # "nil") <=> (vs.failed # {})

\* C16's case: an add failed, and SyncVIPs went on to a removal, which it
\* did, and returned the error
C16_Witness ==
    /\ vs.at = "returned"
    /\ vs.ret = "multiple errors"
    /\ \E ip \in Hosts : <<"add", ip>> \in vs.failed
    /\ <<"del", StrayVip>> \in vs.tried \ vs.failed
    /\ StrayVip \notin vs.iface

(***************************************************************************)
(* Claims about the gossip event dispatcher (SpecGossip).                  *)
(***************************************************************************)
\* C17: while and after a member-join event is handled, the node has issued,
\* for each member it has gone through, AddPeer with the member's address
\* and raft-port tag joined by a colon when the member's role tag is
\* balancer and nothing otherwise, and it has gone through members only if
\* it was leader when it began to handle the event; a join it began to
\* handle as non-leader is finished with nothing issued.
C17_AddPeerIffBalancerAndLeader ==
    gev.Type = "member-join" =>
        /\ (gev.at # "handleMemberJoin" /\ ~gev.leader)
              => (gev.at = "recv" /\ gev.steps = <<>>)
        /\ (gev.at = "recv" /\ gev.leader)
              => Len(gev.steps) = Len(gev.Members)
        /\ \A j \in 1..Len(gev.steps) :
              /\ gev.leader
              /\ gev.steps[j].m = gev.Members[j]
              /\ gev.steps[j].cmd = NoCall
              /\ gev.steps[j].call =
                    IF gev.Members[j].Tags["role"] = "balancer"
                    THEN [op |-> "AddPeer",
                          addr |-> gev.Members[j].Addr \o ":"
                                      \o gev.Members[j].Tags["raft-port"]]
                    ELSE NoCall

\* C17's case: a join of a balancer and an agent has been handled on the
\* leader: one AddPeer, for the balancer
C17_Witness ==
    /\ gev.Type = "member-join"
    /\ gev.at = "recv"
    /\ gev.leader
    /\ Len(gev.steps) = 2
    /\ gev.steps[1].call = [op |-> "AddPeer", addr |-> "10.1.0.2:4382"]
    /\ gev.steps[2].m.Name = "d1"
    /\ gev.steps[2].call = NoCall

\* C18: for each balancer member of a member-leave or member-failed event
\* the node has gone through, it issued RemovePeer for the member's address
\* and raft port if it was leader when it handled the member and nothing if
\* it was not; it reported a failure only as leader and only for an error of
\* the removal other than unknown-peer.
C18_RemovePeerIffLeader ==
    gev.Type \in {"member-leave", "member-failed"} =>
        \A j \in 1..Len(gev.steps) :
            gev.Members[j].Tags["role"] = "balancer" =>
                /\ gev.steps[j].m = gev.Members[j]
                /\ gev.steps[j].cmd = NoCall
                /\ gev.steps[j].call =
                      IF gev.steps[j].leader
                      THEN [op |-> "RemovePeer",
                            addr |-> gev.Members[j].Addr \o ":"
                                        \o gev.Members[j].Tags["raft-port"]]
                      ELSE NoCall
                /\ gev.steps[j].reported <=>
                      (gev.steps[j].leader
                          /\ gev.steps[j].err \notin {"nil", "unknown peer"})

\* C18's case: the leader removed a failed balancer that raft did not know,
\* and reported nothing
C18_Witness ==
    /\ gev.Type = "member-failed"
    /\ gev.at = "recv"
    /\ Len(gev.steps) = 1
    /\ gev.steps[1].leader
    /\ gev.steps[1].call = [op |-> "RemovePeer", addr |-> "10.1.0.2:4382"]
    /\ gev.steps[1].err = "unknown peer"
    /\ ~gev.steps[1].reported

OrderedStep(s) == s # "serf.Shutdown"

\* C20: when Shutdown has returned it has left the gossip cluster, then
\* waited for its removal, then shut consensus down, then closed the log
\* store if there is one, then cleared the peer list, and it has issued no
\* RemovePeer.
C20_ShutdownOrder ==
    sd.at = "done" =>
        SelectSeq(sd.steps, OrderedStep) =
            <<"serf.Leave", "wait", "raft.Shutdown">>
               \o (IF sraft.store THEN <<"raftStore.Close">> ELSE <<>>)
               \o <<"SetPeers">>

\* Leave has called serf.Leave and has returned
LeftAndReturned ==
    /\ sd.at \in {"serf.Shutdown", "raft.Shutdown", "raftStore.Close",
                  "SetPeers", "done"}
    /\ Len(sd.steps) > 0
    /\ sd.steps[1] = "serf.Leave"

\* C21: when Leave has left the gossip cluster and has returned, either the
\* peer store lists no other peer any more (the node has been removed) or
\* the grace period has elapsed.
C21_LeaveWaitsForRemoval ==
    LeftAndReturned => (sd.numPeers = 0 \/ sd.expired)

(***************************************************************************)
(* Claims about Restore (SpecRestore).                                     *)
(***************************************************************************)
\* the ids of the Services in the decoded slice
SnapshotServiceIds(rc) ==
    {SvcGetId(UnmarshalService(JsonField(rc[i], "Service"))) : i \in DOMAIN rc}

\* the ids of the Destinations nested in the decoded slice
SnapshotDestinationIds(rc) ==
    UNION {{DstGetId(UnmarshalDestination(JsonField(rc[i], "Destinations")[j])) :
               j \in DOMAIN JsonField(rc[i], "Destinations")} : i \in DOMAIN rc}

\* map after keeps every entry of map before whose key is not in ids, and
\* differs from before at keys in ids only
FrameOutside(before, after, ids) ==
    /\ \A k \in DOMAIN before \ ids :
           k \in DOMAIN after /\ after[k] = before[k]
    /\ \A k \in DOMAIN after \ ids :
           k \in DOMAIN before /\ after[k] = before[k]

\* C22: after a Restore, every Service and every Destination that was in
\* the Catalog under an id that does not occur in the snapshot is still
\* there unchanged, and nothing is added or overwritten except under ids
\* that occur in the snapshot; a Restore that fails to decode changes
\* nothing.
C22_RestoreDoesNotClear ==
    tlast.at = "Restore" =>
        IF tlast.decodes
        THEN /\ FrameOutside(tlast.before.Services, tstate.Services,
                             SnapshotServiceIds(tlast.rc))
             /\ FrameOutside(tlast.before.Destinations, tstate.Destinations,
                             SnapshotDestinationIds(tlast.rc))
        ELSE tstate = tlast.before

\* a Restore on a Catalog that had a Service and a Destination outside the
\* snapshot and a Service inside it, whose value the snapshot replaced
C22_Witness ==
    /\ tlast.at = "Restore"
    /\ tlast.decodes
    /\ DOMAIN tlast.before.Services \ SnapshotServiceIds(tlast.rc) # {}
    /\ DOMAIN tlast.before.Destinations
           \ SnapshotDestinationIds(tlast.rc) # {}
    /\ \E k \in DOMAIN tlast.before.Services \cap SnapshotServiceIds(tlast.rc) :
           tstate.Services[k] # tlast.before.Services[k]

(***************************************************************************)
(* Claims about startup (SpecStart).                                       *)
(***************************************************************************)
\* C23: the state-change watcher never evaluates IsLeader while b.raft is
\* still nil, whatever the consensus runtime calls on the FSM during
\* construction, and no request published during startup is left without
\* an answer by a watcher that has stopped.
C23_NoLeadershipReadBeforeRaft ==
    /\ ~st.nilRead
    /\ st.watcher = "panic" => st.fsm # "waiting"

====
